---- MODULE Spec2Model ----
(***************************************************************************)
(* CustomDistEvalHook of models/hooks/eval_hook.py: the dynamic-interval   *)
(* evaluation scheduler (_calc_dynamic_intervals, __init__,                *)
(* _decide_interval, before_train_epoch, before_train_iter) and the        *)
(* history-buffer swap around the distributed evaluation (_do_evaluate).   *)
(*                                                                         *)
(* Python values: None is the empty sequence, a present value v is <<v>>.  *)
(* Python lists and tuples are sequences (index 0 of Python is index 1).   *)
(***************************************************************************)
EXTENDS Integers, Sequences, FiniteSets, TLC

\* ---------------------------------------------------------------- bounds
MaxInterval == 2       \* evaluation intervals are 1..MaxInterval
MaxMilestone == 2      \* configured milestones are 0..MaxMilestone
MaxLen == 2            \* dynamic_intervals has at most MaxLen entries
MaxProgress == 4       \* runner.epoch and runner.iter are 0..MaxProgress
MaxTensor == 2         \* distinct contents a history tensor can have

VARIABLES
    \* the hook (self)
    constructed,            \* "new" before __init__, then "ok" or the error raised
    dyn_arg,                \* the dynamic_intervals argument given to __init__
    interval,               \* self.interval
    by_epoch,               \* self.by_epoch
    use_dynamic_intervals,  \* self.use_dynamic_intervals
    dynamic_milestones,     \* self.dynamic_milestones
    dynamic_intervals,      \* self.dynamic_intervals
    save_best,              \* self.save_best
    broadcast_bn_buffer,    \* self.broadcast_bn_buffer
    latest_results,         \* self.latest_results
    \* the runner
    epoch,                  \* runner.epoch
    iter,                   \* runner.iter
    last_call,              \* the last hook method the training loop called
    rank,                   \* runner.rank
    log_buffer,             \* runner.log_buffer.output['eval_iter_num']
    host,                   \* which attributes runner.model / runner.ema_model have
    head,                   \* history buffers of the primary model's pts_bbox_head
    ema_head,               \* history buffers of the shadow (EMA) model's pts_bbox_head
    \* the running call of _do_evaluate
    pc,                     \* position in _do_evaluate
    snapshot,               \* locals history_occ, history_seq_ids, ...
    pre,                    \* the state the call started from
    trigger,                \* what self._should_evaluate(runner) returned
    calls,                  \* how often each collaborator was invoked
    key_score,              \* local key_score
    saved_score,            \* the score _save_ckpt was last given
    error                   \* the exception that ended the call, if any

hookVars == <<constructed, dyn_arg, interval, by_epoch, use_dynamic_intervals,
              dynamic_milestones, dynamic_intervals>>
trainVars == <<epoch, iter, last_call>>
evalVars == <<save_best, broadcast_bn_buffer, latest_results, rank, log_buffer,
              host, head, ema_head, pc, snapshot, pre, trigger, calls, key_score,
              saved_score, error>>
vars == <<hookVars, trainVars, evalVars>>

None == << >>
Some(v) == <<v>>

\* ------------------------------------------------- the interval policy

\* A dynamic_intervals entry: a tuple or a list (isTuple) of integers.
Entry(isTuple, items) == [isTuple |-> isTuple, items |-> items]
\* The dynamic_intervals argument: None, or a list or another sequence
\* (isList) of entries.
NoArg == [isNone |-> TRUE, isList |-> FALSE, items |-> << >>]
Arg(isList, items) == [isNone |-> FALSE, isList |-> isList, items |-> items]

SeqsUpTo(S, n) == UNION {[1..k -> S] : k \in 0..n}

Pairs == {Entry(TRUE, <<m, i>>) : m \in 0..MaxMilestone, i \in 1..MaxInterval}
\* start interval 5 with dynamic_intervals [(10, 2), (20, 1)]
ExampleArg == [isNone |-> FALSE, isList |-> TRUE,
               items |-> <<Entry(TRUE, <<10, 2>>), Entry(TRUE, <<20, 1>>)>>]
ExampleProgress == {0, 8, 9, 10, 18, 19, 20, 100}
OddEntries == {Entry(TRUE, << >>), Entry(TRUE, <<2>>), Entry(TRUE, <<2, 1, 3>>),
               Entry(FALSE, <<2, 1>>)}
Args == {NoArg}
        \cup {Arg(TRUE, s) : s \in SeqsUpTo(Pairs, MaxLen)}
        \cup {Arg(TRUE, <<e>>) : e \in OddEntries}
        \cup {Arg(TRUE, <<Entry(TRUE, <<1, 2>>), e>>) : e \in OddEntries}
        \cup {Arg(FALSE, <<Entry(TRUE, <<2, 1>>)>>)}
        \cup {ExampleArg}

\* isinstance(seq, list) alone, the entries unchecked
is_list_unchecked(arg) == ~arg.isNone /\ arg.isList

\* mmcv.is_list_of(seq, tuple)
is_list_of_tuple(arg) ==
    /\ ~arg.isNone
    /\ arg.isList
    /\ \A k \in 1..Len(arg.items) : arg.items[k].isTuple

\* [dynamic_interval[j] for dynamic_interval in dynamic_interval_list], j = 0, 1
Column(items, j) == [k \in 1..Len(items) |-> items[k].items[j + 1]]
ColumnRaises(items, j) == \E k \in 1..Len(items) : Len(items[k].items) <= j

\* _calc_dynamic_intervals: the error raised, or "ok"
CalcOutcome(arg) ==
    IF ~is_list_of_tuple(arg) THEN "AssertionError"
    ELSE IF ColumnRaises(arg.items, 0) \/ ColumnRaises(arg.items, 1) THEN "IndexError"
    ELSE "ok"
CalcMilestones(arg) == <<0>> \o Column(arg.items, 0)
CalcIntervals(start_interval, arg) == <<start_interval>> \o Column(arg.items, 1)

\* bisect.bisect_left in place of bisect.bisect
RECURSIVE BisectLeftLoop(_, _, _, _)
BisectLeftLoop(a, x, lo, hi) ==
    IF lo < hi
    THEN LET m == (lo + hi) \div 2
         IN  IF a[m + 1] < x THEN BisectLeftLoop(a, x, m + 1, hi)
                             ELSE BisectLeftLoop(a, x, lo, m)
    ELSE lo
bisect_left(a, x) == BisectLeftLoop(a, x, 0, Len(a))

\* the comparison of the search turned around
RECURSIVE BisectTurnedLoop(_, _, _, _)
BisectTurnedLoop(a, x, lo, hi) ==
    IF lo < hi
    THEN LET m == (lo + hi) \div 2
         IN  IF x > a[m + 1] THEN BisectTurnedLoop(a, x, lo, m)
                             ELSE BisectTurnedLoop(a, x, m + 1, hi)
    ELSE lo
bisect_turned(a, x) == BisectTurnedLoop(a, x, 0, Len(a))

\* bisect.bisect(a, x) (bisect_right), as the standard library searches
RECURSIVE BisectLoop(_, _, _, _)
BisectLoop(a, x, lo, hi) ==
    IF lo < hi
    THEN LET m == (lo + hi) \div 2
         IN  IF x < a[m + 1] THEN BisectLoop(a, x, lo, m)
                             ELSE BisectLoop(a, x, m + 1, hi)
    ELSE lo
bisect(a, x) == BisectLoop(a, x, 0, Len(a))

\* a[i] of Python: a negative index counts from the end
PyIndex(a, i) == IF i < 0 THEN a[Len(a) + i + 1] ELSE a[i + 1]

Progress(e, it) == IF by_epoch THEN e ELSE it
Step(progress) == bisect(dynamic_milestones, progress + 1)
DecidedInterval(progress) ==
    IF use_dynamic_intervals
    THEN PyIndex(dynamic_intervals, Step(progress) - 1)
    ELSE interval

\* ----------------------------------------------------------- the actions

\* CustomDistEvalHook.__init__
Construct ==
    /\ constructed = "new"
    /\ use_dynamic_intervals' = ~dyn_arg.isNone
    /\ IF dyn_arg.isNone
       THEN /\ constructed' = "ok"
            /\ UNCHANGED <<dynamic_milestones, dynamic_intervals>>
       ELSE /\ constructed' = CalcOutcome(dyn_arg)
            /\ IF CalcOutcome(dyn_arg) = "ok"
               THEN /\ dynamic_milestones' = CalcMilestones(dyn_arg)
                    /\ dynamic_intervals' = CalcIntervals(interval, dyn_arg)
               ELSE UNCHANGED <<dynamic_milestones, dynamic_intervals>>
    /\ UNCHANGED <<dyn_arg, interval, by_epoch, trainVars, evalVars>>

\* _decide_interval(runner) with runner.epoch = e and runner.iter = it
DecideInterval(e, it) ==
    /\ interval' = DecidedInterval(Progress(e, it))
    /\ epoch' = e
    /\ iter' = it

\* The runners the training loop passes: the counter the mode does not read
\* stays where it is.
Counters == IF dyn_arg = ExampleArg THEN ExampleProgress ELSE 0..MaxProgress
Runners == {<<e, it>> \in Counters \X Counters :
               IF by_epoch THEN it = iter ELSE e = epoch}

\* before_train_epoch and before_train_iter end in the method of the mmcv
\* base class, which reads self.interval and writes none of the fields here.
BeforeTrainEpoch ==
    /\ constructed = "ok"
    /\ \E r \in Runners : DecideInterval(r[1], r[2])
    /\ last_call' = "before_train_epoch"
    /\ UNCHANGED <<constructed, dyn_arg, by_epoch, use_dynamic_intervals,
                   dynamic_milestones, dynamic_intervals, evalVars>>

BeforeTrainIter ==
    /\ constructed = "ok"
    /\ \E r \in Runners : DecideInterval(r[1], r[2])
    /\ last_call' = "before_train_iter"
    /\ UNCHANGED <<constructed, dyn_arg, by_epoch, use_dynamic_intervals,
                   dynamic_milestones, dynamic_intervals, evalVars>>


\* ------------------------------------------------ the objects of the runner

\* A history tensor: which buffer it was made for and which content it has.
Tensor(name, g) == Some([buffer |-> name, content |-> g])
\* pts_bbox_head's history: never written, written (content g), or written
\* and then history_occ set to None.
EmptyHead == [history_occ |-> None, history_seq_ids |-> None,
              history_forward_augs |-> None, history_sweep_time |-> None]
FullHead(g) == [history_occ |-> Tensor("occ", g),
                history_seq_ids |-> Tensor("seq_ids", g),
                history_forward_augs |-> Tensor("forward_augs", g),
                history_sweep_time |-> Tensor("sweep_time", g)]
ClearedHead(g) == [FullHead(g) EXCEPT !.history_occ = None]
Heads == {EmptyHead} \cup {FullHead(g) : g \in 1..MaxTensor}
                     \cup {ClearedHead(g) : g \in 1..MaxTensor}

\* runner.model is the network itself ("none"), the network inside a
\* distributed wrapper ("ddp": .module, no attribute of the network), inside
\* a data-parallel wrapper that is_parallel does not count ("dp"), or inside
\* a wrapper that also forwards the network's attributes ("proxy").
\* runner.ema_model.ema_model, when the runner has one, is a copy of it.
Hosts == [wrapper : {"none", "ddp", "dp", "proxy"},
          className : {"TemporalOcc", "OccNet"},
          hasHead : BOOLEAN,
          flag : {"absent", "true", "false"},
          hasEma : BOOLEAN]
ValidHosts == {h \in Hosts : ~h.hasHead => h.flag = "absent"}

HasModule(h) == h.wrapper \in {"ddp", "dp", "proxy"}
HasDirectHead(h) == h.wrapper \in {"none", "proxy"} /\ h.hasHead
\* is_parallel(runner.model) of models/hooks/utils.py
is_parallel(h) == h.wrapper = "ddp"

\* the class name alone deciding, the flag unread
Condition_ClassOnly(h) ==
    IF ~HasModule(h) THEN "AttributeError"
    ELSE IF h.className # "TemporalOcc" THEN "False"
    ELSE IF ~h.hasHead \/ h.flag = "absent" THEN "AttributeError"
    ELSE "True"

\* runner.model.module.__class__.__name__ == "TemporalOcc"
\*     and runner.model.module.pts_bbox_head.use_history_flag == True
Condition(h) ==
    IF ~HasModule(h) THEN "AttributeError"
    ELSE IF h.className # "TemporalOcc" THEN "False"
    ELSE IF ~h.hasHead \/ h.flag = "absent" THEN "AttributeError"
    ELSE IF h.flag = "true" THEN "True" ELSE "False"

\* tensor.clone(): None has no clone
CloneRaises(x) == x = None
Clone(x) == x

\* bool(x) of Python for x a number or None
Truthy(x) == x # None /\ x[1] # 0

\* --------------------------------------- _do_evaluate, lines 63 to 78

\* What the first isolation block leaves: the exception raised (or "ok"),
\* the locals, and the two heads.
SnapshotOf(hd) ==
    IF hd.history_occ # None
    THEN [history_occ |-> Clone(hd.history_occ),
          history_seq_ids |-> Clone(hd.history_seq_ids),
          history_forward_augs |-> Clone(hd.history_forward_augs),
          history_sweep_time |-> Clone(hd.history_sweep_time)]
    ELSE EmptyHead
SnapshotRaises(hd) ==
    /\ hd.history_occ # None
    /\ \/ CloneRaises(hd.history_seq_ids)
       \/ CloneRaises(hd.history_forward_augs)
       \/ CloneRaises(hd.history_sweep_time)

ClearOcc(hd) == [hd EXCEPT !.history_occ = None]

EntryResult(h, hd, ema, snap) ==
    IF Condition(h) = "AttributeError"
    THEN [error |-> "AttributeError", snapshot |-> snap, head |-> hd, ema_head |-> ema]
    ELSE IF Condition(h) = "False"
    THEN [error |-> "ok", snapshot |-> snap, head |-> hd, ema_head |-> ema]
    ELSE IF is_parallel(h)
    THEN IF SnapshotRaises(hd)
         THEN [error |-> "AttributeError", snapshot |-> snap, head |-> hd,
               ema_head |-> ema]
         ELSE IF ~h.hasEma
         THEN [error |-> "AttributeError", snapshot |-> SnapshotOf(hd),
               head |-> ClearOcc(hd), ema_head |-> ema]
         ELSE [error |-> "ok", snapshot |-> SnapshotOf(hd),
               head |-> ClearOcc(hd), ema_head |-> ClearOcc(ema)]
    ELSE IF ~h.hasEma \/ ~HasDirectHead(h)
         THEN [error |-> "AttributeError", snapshot |-> snap, head |-> hd,
               ema_head |-> ema]
         ELSE [error |-> "ok", snapshot |-> snap,
               head |-> ClearOcc(hd), ema_head |-> ClearOcc(ema)]

\* --------------------------------------- _do_evaluate, lines 113 to 126

\* the snapshot never written back
RestoredHead_Dropped(hd, snap) == ClearOcc(hd)

RestoredHead(hd, snap) ==
    IF snap.history_occ # None
    THEN [history_occ |-> Clone(snap.history_occ),
          history_seq_ids |-> Clone(snap.history_seq_ids),
          history_forward_augs |-> Clone(snap.history_forward_augs),
          history_sweep_time |-> Clone(snap.history_sweep_time)]
    ELSE ClearOcc(hd)

ExitResult(h, hd, ema, snap) ==
    IF Condition(h) = "AttributeError"
    THEN [error |-> "AttributeError", head |-> hd, ema_head |-> ema]
    ELSE IF Condition(h) = "False"
    THEN [error |-> "ok", head |-> hd, ema_head |-> ema]
    ELSE IF is_parallel(h)
    THEN IF ~h.hasEma
         THEN [error |-> "AttributeError", head |-> RestoredHead(hd, snap),
               ema_head |-> ema]
         ELSE [error |-> "ok", head |-> RestoredHead(hd, snap),
               ema_head |-> ClearOcc(ema)]
    ELSE IF ~HasDirectHead(h)
         THEN [error |-> "AttributeError", head |-> hd, ema_head |-> ema]
         ELSE IF ~h.hasEma
         THEN [error |-> "AttributeError", head |-> ClearOcc(hd), ema_head |-> ema]
         ELSE [error |-> "ok", head |-> ClearOcc(hd), ema_head |-> ClearOcc(ema)]


\* ------------------------------------------- the steps of _do_evaluate

NoCalls == [broadcast |-> 0, should_evaluate |-> 0, multi_gpu_test |-> 0,
            evaluate |-> 0, save_ckpt |-> 0]
Called(name) == [calls EXCEPT ![name] = @ + 1]

callFrame == <<save_best, broadcast_bn_buffer, rank, host, pre>>

\* lines 63 to 78
IsolateEntry ==
    /\ pc = "isolate"
    /\ LET r == EntryResult(host, head, ema_head, snapshot)
       IN  /\ head' = r.head
           /\ ema_head' = r.ema_head
           /\ snapshot' = r.snapshot
           /\ error' = r.error
           /\ pc' = IF r.error = "ok" THEN "broadcast" ELSE "raised"
    /\ UNCHANGED <<hookVars, trainVars, callFrame, latest_results, log_buffer,
                   trigger, calls, key_score, saved_score>>

\* lines 79 to 85: dist.broadcast can fail
BroadcastBN ==
    /\ pc = "broadcast"
    /\ IF broadcast_bn_buffer
       THEN /\ calls' = Called("broadcast")
            /\ \E fails \in BOOLEAN :
                  /\ error' = IF fails THEN "RuntimeError" ELSE "ok"
                  /\ pc' = IF fails THEN "raised" ELSE "trigger"
       ELSE /\ pc' = "trigger"
            /\ UNCHANGED <<calls, error>>
    /\ UNCHANGED <<hookVars, trainVars, callFrame, latest_results, log_buffer,
                   head, ema_head, snapshot, trigger, key_score, saved_score>>

\* the early return missing
AfterTrigger_NoReturn(t) == "test"

\* lines 87 and 88, self._should_evaluate(runner) returning t
AfterTrigger(t) == IF t THEN "test" ELSE "returned"
CheckTrigger ==
    /\ pc = "trigger"
    /\ \E t \in BOOLEAN :
          /\ trigger' = Some(t)
          /\ pc' = AfterTrigger(t)
    /\ calls' = Called("should_evaluate")
    /\ UNCHANGED <<hookVars, trainVars, callFrame, latest_results, log_buffer,
                   head, ema_head, snapshot, key_score, saved_score, error>>

\* The shadow head after multi_gpu_test ran the shadow model over the
\* evaluation sequences: left alone, or holding their history.
HeadsAfterTest(h, ema) ==
    IF h.hasHead THEN {ema} \cup {FullHead(g) : g \in 1..MaxTensor} ELSE {ema}

\* lines 94 to 102
MultiGpuTest ==
    /\ pc = "test"
    /\ IF ~host.hasEma
       THEN /\ error' = "AttributeError"
            /\ pc' = "raised"
            /\ UNCHANGED <<calls, ema_head, latest_results>>
       ELSE /\ calls' = Called("multi_gpu_test")
            /\ ema_head' \in HeadsAfterTest(host, ema_head)
            /\ \E fails \in BOOLEAN :
                  IF fails
                  THEN /\ error' = "RuntimeError"
                       /\ pc' = "raised"
                       /\ UNCHANGED latest_results
                  ELSE /\ latest_results' = Some("results")
                       /\ pc' = "rank0"
                       /\ UNCHANGED error
    /\ UNCHANGED <<hookVars, trainVars, callFrame, log_buffer, head, snapshot,
                   trigger, key_score, saved_score>>

KeyScores == {None, Some(0), Some(1)}
\* line 110
SavesBest(sb, ks) == sb # None /\ Truthy(ks)

\* lines 103 to 111: self.evaluate and self._save_ckpt can fail
Rank0Block ==
    /\ pc = "rank0"
    /\ IF rank # 0
       THEN /\ pc' = "restore"
            /\ UNCHANGED <<log_buffer, calls, key_score, saved_score, error>>
       ELSE /\ log_buffer' = Some("len(dataloader)")
            /\ \E ks \in KeyScores, evalFails \in BOOLEAN, saveFails \in BOOLEAN :
                  IF evalFails
                  THEN /\ calls' = Called("evaluate")
                       /\ error' = "RuntimeError"
                       /\ pc' = "raised"
                       /\ UNCHANGED <<key_score, saved_score>>
                  ELSE /\ key_score' = ks
                       /\ IF SavesBest(save_best, ks)
                          THEN /\ calls' = [calls EXCEPT !.evaluate = @ + 1,
                                                         !.save_ckpt = @ + 1]
                               /\ saved_score' = ks
                               /\ error' = IF saveFails THEN "RuntimeError" ELSE "ok"
                               /\ pc' = IF saveFails THEN "raised" ELSE "restore"
                          ELSE /\ calls' = Called("evaluate")
                               /\ pc' = "restore"
                               /\ UNCHANGED <<saved_score, error>>
    /\ UNCHANGED <<hookVars, trainVars, callFrame, latest_results, head,
                   ema_head, snapshot, trigger>>

\* lines 113 to 126
IsolateExit ==
    /\ pc = "restore"
    /\ LET r == ExitResult(host, head, ema_head, snapshot)
       IN  /\ head' = r.head
           /\ ema_head' = r.ema_head
           /\ error' = r.error
           /\ pc' = IF r.error = "ok" THEN "returned" ELSE "raised"
    /\ UNCHANGED <<hookVars, trainVars, callFrame, latest_results, log_buffer,
                   snapshot, trigger, calls, key_score, saved_score>>

\* -------------------------------------------------- the specifications

\* The hook's fields that _do_evaluate reads, before any call of it.
EvalIdle ==
    /\ save_best = None
    /\ broadcast_bn_buffer = FALSE
    /\ latest_results = None
    /\ rank = 0
    /\ log_buffer = None
    /\ host = [wrapper |-> "ddp", className |-> "TemporalOcc", hasHead |-> TRUE,
               flag |-> "true", hasEma |-> TRUE]
    /\ head = EmptyHead
    /\ ema_head = EmptyHead
    /\ pc = "idle"
    /\ snapshot = EmptyHead
    /\ pre = [head |-> EmptyHead, ema_head |-> EmptyHead,
              latest_results |-> None, log_buffer |-> None]
    /\ trigger = None
    /\ calls = NoCalls
    /\ key_score = None
    /\ saved_score = None
    /\ error = "ok"

\* The scheduler: a hook about to be constructed with some dynamic_intervals.
Init ==
    /\ constructed = "new"
    /\ dyn_arg \in Args
    /\ interval \in (IF dyn_arg = ExampleArg THEN {5} ELSE 1..MaxInterval)
    /\ by_epoch \in BOOLEAN
    /\ use_dynamic_intervals = FALSE
    /\ dynamic_milestones = << >>
    /\ dynamic_intervals = << >>
    /\ epoch = 0
    /\ iter = 0
    /\ last_call = "none"
    /\ EvalIdle

Next == Construct \/ BeforeTrainEpoch \/ BeforeTrainIter

Spec == Init /\ [][Next]_vars

\* The evaluation: a constructed hook at the first line of _do_evaluate.
InitEval ==
    /\ constructed = "ok"
    /\ dyn_arg = NoArg
    /\ interval = 1
    /\ by_epoch = TRUE
    /\ use_dynamic_intervals = FALSE
    /\ dynamic_milestones = << >>
    /\ dynamic_intervals = << >>
    /\ epoch = 0
    /\ iter = 0
    /\ last_call = "none"
    /\ save_best \in {None, Some("auto")}
    /\ broadcast_bn_buffer \in BOOLEAN
    /\ latest_results \in {None, Some("earlier results")}
    /\ rank \in {0, 1}
    /\ log_buffer = None
    /\ host \in ValidHosts
    /\ head \in (IF host.hasHead THEN Heads ELSE {EmptyHead})
    /\ ema_head \in (IF host.hasHead /\ host.hasEma THEN Heads ELSE {EmptyHead})
    /\ pc = "isolate"
    /\ snapshot = EmptyHead
    /\ pre = [head |-> head, ema_head |-> ema_head,
              latest_results |-> latest_results, log_buffer |-> log_buffer]
    /\ trigger = None
    /\ calls = NoCalls
    /\ key_score = None
    /\ saved_score = None
    /\ error = "ok"

NextEval ==
    \/ IsolateEntry
    \/ BroadcastBN
    \/ CheckTrigger
    \/ MultiGpuTest
    \/ Rank0Block
    \/ IsolateExit

SpecEval == InitEval /\ [][NextEval]_vars


\* ------------------------------------------------------------ the claims

NonDecreasing(s) == \A k \in 1..(Len(s) - 1) : s[k] <= s[k + 1]
StrictlyIncreasing(s) == \A k \in 1..(Len(s) - 1) : s[k] < s[k + 1]
\* the position of the last entry of ms that is at most x
LastAtMost(ms, x) ==
    CHOOSE k \in 1..Len(ms) :
        /\ ms[k] <= x
        /\ \A j \in 1..Len(ms) : ms[j] <= x => j <= k
\* _decide_interval has run on a hook with dynamic intervals
Decided == constructed = "ok" /\ use_dynamic_intervals /\ last_call # "none"
ProgressRead == IF by_epoch THEN epoch ELSE iter
ExampleDecided == Decided /\ dyn_arg = ExampleArg /\ dynamic_intervals[1] = 5

\* C1 as stated: for a table with strictly increasing milestones,
\* _decide_interval sets the interval of the greatest milestone m <= p, so
\* that p = m1 - 1 still gets the start interval (resolve(9) = 5,
\* resolve(19) = 2 in the example).
C1_GreatestMilestoneAtMostProgress ==
    (Decided /\ StrictlyIncreasing(dynamic_milestones))
        => interval = dynamic_intervals[LastAtMost(dynamic_milestones, ProgressRead)]

\* C1 amended: for a table with non-decreasing milestones, _decide_interval
\* sets the interval of the last entry whose milestone m <= p + 1: progress
\* m - 1 already gets the interval of milestone m, and only progress below
\* m1 - 1 gets the start interval.  With start interval 5 and milestones
\* (10,2),(20,1): resolve(0) = 5, resolve(8) = 5, resolve(9) = 2,
\* resolve(10) = 2, resolve(18) = 2, resolve(19) = 1, resolve(20) = 1,
\* resolve(100) = 1.
C1_LastMilestoneAtMostProgressPlusOne ==
    /\ (Decided /\ NonDecreasing(dynamic_milestones))
          => interval = dynamic_intervals[LastAtMost(dynamic_milestones,
                                                     ProgressRead + 1)]
    /\ ExampleDecided =>
          /\ ProgressRead \in {0, 8} => interval = 5
          /\ ProgressRead \in {9, 10, 18} => interval = 2
          /\ ProgressRead \in {19, 20, 100} => interval = 1

\* C1 witness: a decision at progress m1 - 1 that took the interval of m1,
\* which differs from the start interval.
C1_Witness ==
    /\ Decided
    /\ Len(dynamic_milestones) >= 2
    /\ StrictlyIncreasing(dynamic_milestones)
    /\ ProgressRead = dynamic_milestones[2] - 1
    /\ interval = dynamic_intervals[2]
    /\ dynamic_intervals[2] # dynamic_intervals[1]

\* C7 as stated: a dynamic_intervals whose milestones are not strictly
\* increasing or not above 0, or whose entries are not pairs, fails at
\* construction, so every constructed table is strictly increasing from 0.
ConfiguredPairs(arg) ==
    /\ arg.isList
    /\ \A k \in 1..Len(arg.items) :
          arg.items[k].isTuple /\ Len(arg.items[k].items) = 2
ConfiguredIncreasing(arg) ==
    /\ \A k \in 1..Len(arg.items) : arg.items[k].items[1] > 0
    /\ \A k \in 1..(Len(arg.items) - 1) :
          arg.items[k].items[1] < arg.items[k + 1].items[1]
C7_MalformedFailsAtConstruction ==
    (constructed = "ok" /\ ~dyn_arg.isNone)
        => /\ ConfiguredPairs(dyn_arg)
           /\ ConfiguredIncreasing(dyn_arg)
           /\ dynamic_milestones[1] = 0
           /\ StrictlyIncreasing(dynamic_milestones)

\* C7 amended: construction fails (AssertionError) when dynamic_intervals is
\* not a list or an entry is not a tuple, and (IndexError) when an entry has
\* fewer than two elements; the order and the sign of the milestones are not
\* checked.  Every constructed table is 0 and the start interval followed by
\* the configured milestones and intervals in the order given, so it is
\* strictly increasing exactly when the configured milestones are strictly
\* increasing and above 0.
ShapeAccepted(arg) ==
    /\ arg.isList
    /\ \A k \in 1..Len(arg.items) :
          arg.items[k].isTuple /\ Len(arg.items[k].items) >= 2
C7_OnlyTheShapeIsChecked ==
    (constructed # "new" /\ ~dyn_arg.isNone) =>
        /\ constructed = "ok" <=> ShapeAccepted(dyn_arg)
        /\ constructed = "AssertionError" <=>
              ~(dyn_arg.isList /\ \A k \in 1..Len(dyn_arg.items) :
                                     dyn_arg.items[k].isTuple)
        /\ constructed = "ok" =>
              /\ Len(dynamic_milestones) = Len(dyn_arg.items) + 1
              /\ Len(dynamic_intervals) = Len(dyn_arg.items) + 1
              /\ dynamic_milestones[1] = 0
              /\ last_call = "none" => dynamic_intervals[1] = interval
              /\ \A k \in 1..Len(dyn_arg.items) :
                    /\ dynamic_milestones[k + 1] = dyn_arg.items[k].items[1]
                    /\ dynamic_intervals[k + 1] = dyn_arg.items[k].items[2]
              /\ StrictlyIncreasing(dynamic_milestones)
                    <=> ConfiguredIncreasing(dyn_arg)

\* C7 witness: a hook constructed from milestones that are not strictly
\* increasing.
C7_Witness ==
    /\ constructed = "ok"
    /\ use_dynamic_intervals
    /\ Len(dynamic_milestones) = 3
    /\ dynamic_milestones[2] > dynamic_milestones[3]

\* C8 as stated: for p <= q the interval resolved at p is at most the
\* interval resolved at q.
C8_IntervalNonDecreasing ==
    (constructed = "ok" /\ use_dynamic_intervals
       /\ StrictlyIncreasing(dynamic_milestones))
        => \A p \in Counters, q \in Counters :
              p <= q => DecidedInterval(p) <= DecidedInterval(q)

\* C8 amended: for a table with non-decreasing milestones and p <= q, the
\* table position resolved at p is at most the position resolved at q; the
\* resolved interval is non-decreasing in the progress when the table's
\* intervals are non-decreasing, and non-increasing when they are
\* non-increasing (as in the example 5, 2, 1).
Reversed(s) == [k \in 1..Len(s) |-> s[Len(s) + 1 - k]]
C8_PositionNonDecreasing ==
    (constructed = "ok" /\ use_dynamic_intervals
       /\ NonDecreasing(dynamic_milestones))
        => \A p \in Counters, q \in Counters :
              p <= q =>
                 /\ Step(p) <= Step(q)
                 /\ NonDecreasing(dynamic_intervals)
                       => DecidedInterval(p) <= DecidedInterval(q)
                 /\ NonDecreasing(Reversed(dynamic_intervals))
                       => DecidedInterval(p) >= DecidedInterval(q)

\* C8 witness: a decision late in a sorted table whose intervals shrink took
\* an interval below the start interval.
C8_Witness ==
    /\ Decided
    /\ StrictlyIncreasing(dynamic_milestones)
    /\ Len(dynamic_milestones) = 3
    /\ dynamic_intervals[1] > dynamic_intervals[2]
    /\ dynamic_intervals[2] > dynamic_intervals[3]
    /\ ProgressRead >= dynamic_milestones[3]
    /\ interval = dynamic_intervals[3]


\* The recognized combination under distributed execution: a TemporalOcc
\* network with use_history_flag == True inside the distributed wrapper.
RecognizedDistributed(h) ==
    /\ h.wrapper = "ddp"
    /\ h.className = "TemporalOcc"
    /\ h.hasHead
    /\ h.flag = "true"
\* The recognized network run without the distributed wrapper, reachable as
\* runner.model.module and with its attributes reachable on runner.model.
RecognizedNotDistributed(h) ==
    /\ h.wrapper = "proxy"
    /\ h.className = "TemporalOcc"
    /\ h.hasHead
    /\ h.flag = "true"
\* Not the recognized combination: another class, or the flag False.
Unrecognized(h) ==
    /\ h.wrapper # "none"
    /\ \/ h.className # "TemporalOcc"
       \/ h.hasHead /\ h.flag = "false"
AllPresent(hd) ==
    /\ hd.history_occ # None
    /\ hd.history_seq_ids # None
    /\ hd.history_forward_augs # None
    /\ hd.history_sweep_time # None
Ended == pc \in {"returned", "raised"}
Evaluating == trigger = Some(TRUE)
Skipped == trigger = Some(FALSE)

\* C2: for the recognized model under distributed execution with the four
\* primary history buffers present, when _do_evaluate returns from an
\* evaluation the primary head's four buffers equal their values from before
\* the call and the shadow head's history_occ is None.
C2_PrimaryRestoredShadowEmpty ==
    (pc = "returned" /\ Evaluating /\ RecognizedDistributed(host)
       /\ AllPresent(pre.head))
        => /\ head = pre.head
           /\ ema_head.history_occ = None

\* C2 witness: such a call has returned after multi_gpu_test wrote the
\* shadow head's history.
C2_Witness ==
    /\ pc = "returned"
    /\ Evaluating
    /\ RecognizedDistributed(host)
    /\ AllPresent(pre.head)
    /\ calls.multi_gpu_test = 1
    /\ ema_head.history_seq_ids # pre.ema_head.history_seq_ids
    /\ head = pre.head

\* C3: every call that passed the trigger ends, by return or by exception,
\* with the primary head's history restored to its value from before the
\* call.
C3_RestoredOnEveryExit ==
    (Ended /\ Evaluating /\ RecognizedDistributed(host) /\ AllPresent(pre.head))
        => head = pre.head

\* C4: a call in which _should_evaluate returned false leaves the history
\* of both heads, latest_results and the log buffer as they were before it.
C4_SkipHasNoSideEffects ==
    (Ended /\ Skipped)
        => /\ head = pre.head
           /\ ema_head = pre.ema_head
           /\ latest_results = pre.latest_results
           /\ log_buffer = pre.log_buffer

\* C5: on rank 0 with save_best set and a key score that is not None (0
\* included), _save_ckpt is invoked exactly once, with that score; on every
\* other rank neither self.evaluate nor _save_ckpt is invoked.
C5_SavesOnceOnRankZeroOnly ==
    /\ (pc \in {"restore", "returned"} /\ Evaluating /\ rank = 0
          /\ save_best # None /\ key_score # None)
          => (calls.save_ckpt = 1 /\ saved_score = key_score)
    /\ rank # 0 => (calls.evaluate = 0 /\ calls.save_ckpt = 0)

\* C6: in a call in which _should_evaluate returned false, multi_gpu_test,
\* self.evaluate and _save_ckpt are never invoked.
C6_SkipInvokesNoCollaborator ==
    Skipped
        => /\ calls.multi_gpu_test = 0
           /\ calls.evaluate = 0
           /\ calls.save_ckpt = 0
           /\ pc = "returned"

\* C6 witness: a call that returned because the trigger was false.
C6_Witness ==
    /\ pc = "returned"
    /\ Skipped
    /\ calls.should_evaluate = 1
    /\ calls.multi_gpu_test = 0

C10_RestoredWhenNotDistributed ==
    (pc = "returned" /\ Evaluating /\ RecognizedNotDistributed(host)
       /\ AllPresent(pre.head))
        => head = pre.head


\* A host that has not the shape lines 63 to 78 expect: runner.model with no
\* .module, a TemporalOcc module with no pts_bbox_head or no
\* use_history_flag, or a recognized model on a runner with no ema_model.
ShapeMismatch(h) ==
    \/ h.wrapper = "none"
    \/ h.className = "TemporalOcc" /\ (~h.hasHead \/ h.flag = "absent")
    \/ h.className = "TemporalOcc" /\ h.hasHead /\ h.flag = "true" /\ ~h.hasEma
\* the call ended in the first isolation block, before the trigger check
IsolationRaised == pc = "raised" /\ trigger = None /\ calls.broadcast = 0

\* C11: the isolation step never raises; on a host that has not the
\* expected shape it is skipped, the history left as it was, and the call
\* goes on to the trigger check.
C11_IsolationNeverRaises ==
    /\ ~IsolationRaised
    /\ (ShapeMismatch(host) /\ pc = "broadcast")
          => (head = pre.head /\ ema_head = pre.ema_head)

\* The table position _decide_interval reads at the progress last given.
IndexRead == Step(ProgressRead) - 1
Elements(s) == {s[k] : k \in 1..Len(s)}

\* C12: on a hook with dynamic intervals, after any calls of
\* before_train_epoch and before_train_iter the index _decide_interval
\* computes is within 0..len(table)-1, the current interval is one of the
\* table's intervals, no call changes the milestone or the interval table,
\* and a call at the progress of the call before it leaves the interval as
\* it is.
C12_IndexInRangeTableFixed ==
    /\ [](Decided =>
            /\ IndexRead \in 0..(Len(dynamic_intervals) - 1)
            /\ Len(dynamic_milestones) = Len(dynamic_intervals)
            /\ interval = dynamic_intervals[IndexRead + 1]
            /\ interval \in Elements(dynamic_intervals))
    /\ [][(constructed = "ok" /\ use_dynamic_intervals)
             => /\ dynamic_milestones' = dynamic_milestones
                /\ dynamic_intervals' = dynamic_intervals
                /\ (Decided /\ ProgressRead' = ProgressRead)
                      => interval' = interval]_vars

\* C12 witness: a second kind of call has run on a table of three entries
\* given out of order, and took the last one's interval, which differs from
\* the start interval.
C12_Witness ==
    /\ Decided
    /\ last_call = "before_train_iter"
    /\ Len(dynamic_milestones) = 3
    /\ dynamic_milestones[2] > dynamic_milestones[3]
    /\ ProgressRead > 0
    /\ IndexRead = 2
    /\ interval # dynamic_intervals[1]

====
